---- MODULE Spec2Model ----
(***************************************************************************)
(* Model of pkg/logger/log/accesslog.go: the package initialiser init(),   *)
(* the AccessLog filter and its helpers getRequestBody, getResponseBody    *)
(* and isSupportedContentType.                                             *)
(*                                                                         *)
(* Strings are sequences of characters.  A body byte is one of the         *)
(* characters of Bytes; a content type is a sequence of coarse tokens      *)
(* ("application/json", "; charset=utf-8", ...), so that strings.Contains  *)
(* stays a real substring test.                                            *)
(***************************************************************************)
EXTENDS Integers, Sequences, FiniteSets, TLC

\* ------------------------------------------------------------------ bounds

\* longest request / response body that is enumerated
MaxLen == 2

\* number of concurrent AccessLog invocations
NReq == 2

\* most Write calls a handler makes on the response writer
MaxWrites == 2

\* ------------------------------------------------------------- Go helpers

Absent == [exists |-> FALSE, value |-> <<>>]

Present(s) == [exists |-> TRUE, value |-> s]

\* strings.Contains(s, substr)
Contains(s, substr) ==
    \E i \in 1..(Len(s) + 1) :
        /\ i + Len(substr) - 1 <= Len(s)
        /\ SubSeq(s, i, i + Len(substr) - 1) = substr

\* strings.Split(s, sep) for a one-character separator: always at least one
\* field, the empty string splits into one empty field
RECURSIVE Split(_, _)
Split(s, sep) ==
    IF \A i \in 1..Len(s) : s[i] # sep
    THEN <<s>>
    ELSE LET i == CHOOSE k \in 1..Len(s) :
                      s[k] = sep /\ \A j \in 1..(k - 1) : s[j] # sep
         IN  <<SubSeq(s, 1, i - 1)>> \o Split(SubSeq(s, i + 1, Len(s)), sep)

\* strings.ReplaceAll(s, old, new) for a one-character old
RECURSIVE ReplaceAll(_, _, _)
ReplaceAll(s, old, new) ==
    IF s = <<>> THEN <<>>
    ELSE (IF Head(s) = old THEN new ELSE <<Head(s)>>)
             \o ReplaceAll(Tail(s), old, new)

\* strconv.ParseBool: the accepted spellings, anything else is an error and
\* the value returned with the error is false
ParseBool(s) ==
    IF s \in {"1", "t", "T", "TRUE", "true", "True"}
        THEN [value |-> TRUE, err |-> FALSE]
    ELSE IF s \in {"0", "f", "F", "FALSE", "false", "False"}
        THEN [value |-> FALSE, err |-> FALSE]
    ELSE [value |-> FALSE, err |-> TRUE]

Digits == {"0", "1", "2", "3", "4", "5", "6", "7", "8", "9"}

DigitVal(c) == CHOOSE n \in 0..9 : <<"0", "1", "2", "3", "4", "5", "6", "7", "8", "9">>[n + 1] = c

RECURSIVE DecimalVal(_)
DecimalVal(s) ==
    IF s = <<>> THEN 0
    ELSE DecimalVal(SubSeq(s, 1, Len(s) - 1)) * 10 + DigitVal(s[Len(s)])

\* strconv.ParseInt(s, 0, 64) on decimal input: an optional sign and at least
\* one digit; a syntax error returns the value 0 with the error
ParseInt(s) ==
    LET signed == s # <<>> /\ s[1] \in {"+", "-"}
        digits == IF signed THEN Tail(s) ELSE s
    IN  IF digits = <<>> \/ \E i \in 1..Len(digits) : digits[i] \notin Digits
        THEN [value |-> 0, err |-> TRUE]
        ELSE [value |-> IF signed /\ s[1] = "-"
                          THEN 0 - DecimalVal(digits) ELSE DecimalVal(digits),
              err |-> FALSE]

\* strconv.Itoa, used to enumerate environment values
RECURSIVE Itoa(_)
Itoa(n) ==
    IF n < 0 THEN <<"-">> \o Itoa(0 - n)
    ELSE IF n < 10 THEN <<CHOOSE c \in Digits : DigitVal(c) = n>>
    ELSE Itoa(n \div 10) \o Itoa(n % 10)

\* ------------------------------------------------------------------ state

VARIABLES
    env,                                 \* the process environment
    booted,                              \* init() has run
    FullAccessLogEnabled,
    FullAccessLogSupportedContentTypes,
    FullAccessLogMaxBodySize,
    FullAccessLogRequestBodyEnabled,
    FullAccessLogResponseBodyEnabled,
    errorLog,                            \* messages passed to logrus.Errorf
    fullAccessLogLogger,                 \* the lazily created logger
    loggers,                             \* the logrus.Logger objects created
    stdout,                              \* lines written to os.Stdout
    pc,                                  \* position of each AccessLog call
    req,                                 \* each call's *restful.Request
    origBody,                            \* the body stream as it arrived
    requestBody,                         \* AccessLog's local requestBody
    responseBody,                        \* AccessLog's local responseBody
    respWriter,                          \* each call's ResponseWriterInterceptor
    sent,                                \* bytes that reached the real writer
    handlerSaw,                          \* what the handler read from the body
    chain                                \* what the inner filters and handler do

config == <<FullAccessLogEnabled, FullAccessLogSupportedContentTypes,
            FullAccessLogMaxBodySize, FullAccessLogRequestBodyEnabled,
            FullAccessLogResponseBodyEnabled>>

logging == <<fullAccessLogLogger, loggers, stdout>>

calls == <<pc, req, origBody, requestBody, responseBody, respWriter, sent,
           handlerSaw, chain>>

vars == <<env, booted, config, errorLog, logging, calls>>

Requests == 1..NReq

\* ------------------------------------------------------------- init()

\* documented defaults of the settings
DefaultMaxBodySize == 10240

DefaultSupportedContentTypes ==
    << <<"application/json">>, <<"application/xml">>,
       <<"application/x-www-form-urlencoded">>, <<"text/plain">>,
       <<"text/html">> >>

\* lines 59-65: FULL_ACCESS_LOG_ENABLED
initEnabled(e) ==
    IF e.exists THEN ParseBool(e.value).value ELSE FALSE

\* lines 67-71: FULL_ACCESS_LOG_SUPPORTED_CONTENT_TYPES
initSupportedContentTypes(e) ==
    IF e.exists THEN Split(e.value, ",") ELSE DefaultSupportedContentTypes

\* lines 73-80: FULL_ACCESS_LOG_MAX_BODY_SIZE
initMaxBodySize(e) ==
    IF e.exists THEN ParseInt(e.value).value ELSE DefaultMaxBodySize

\* lines 82-89 and 91-98: the two sub-switches
initBodyEnabled(e) ==
    IF e.exists THEN ParseBool(e.value).value ELSE TRUE

\* the logrus.Errorf calls of init(), in order
initErrors(e) ==
    (IF e.ENABLED.exists /\ ParseBool(e.ENABLED.value).err
        THEN <<"Parse FULL_ACCESS_LOG_ENABLED env error">> ELSE <<>>)
    \o (IF e.MAX_BODY_SIZE.exists /\ ParseInt(e.MAX_BODY_SIZE.value).err
        THEN <<"Parse FULL_ACCESS_LOG_MAX_BODY_SIZE env error">> ELSE <<>>)
    \o (IF e.REQUEST_BODY_ENABLED.exists /\ ParseBool(e.REQUEST_BODY_ENABLED.value).err
        THEN <<"Parse FULL_ACCESS_LOG_REQUEST_BODY_ENABLED env error">> ELSE <<>>)
    \o (IF e.RESPONSE_BODY_ENABLED.exists /\ ParseBool(e.RESPONSE_BODY_ENABLED.value).err
        THEN <<"Parse FULL_ACCESS_LOG_RESPONSE_BODY_ENABLED env error">> ELSE <<>>)

\* func init(): runs once, before any request is served
init ==
    /\ ~booted
    /\ booted' = TRUE
    /\ FullAccessLogEnabled' = initEnabled(env.ENABLED)
    /\ FullAccessLogSupportedContentTypes' =
           initSupportedContentTypes(env.SUPPORTED_CONTENT_TYPES)
    /\ FullAccessLogMaxBodySize' = initMaxBodySize(env.MAX_BODY_SIZE)
    /\ FullAccessLogRequestBodyEnabled' = initBodyEnabled(env.REQUEST_BODY_ENABLED)
    /\ FullAccessLogResponseBodyEnabled' = initBodyEnabled(env.RESPONSE_BODY_ENABLED)
    /\ errorLog' = errorLog \o initErrors(env)
    /\ UNCHANGED <<env, logging, calls>>

\* ------------------------------------------------------- request streams

\* An io.ReadCloser: the bytes it delivers, the read position, and how a read
\* past the last byte ends: io.EOF, or an error that every later read
\* returns again
Stream(data, end) == [data |-> data, pos |-> 0, end |-> end]

\* ioutil.NopCloser(bytes.NewBuffer(b))
NopCloserBuffer(b) == Stream(b, "EOF")

\* ioutil.ReadAll(body): the bytes read, the error (io.EOF is no error) and
\* the stream afterwards
ReadAll(body) ==
    [bytes |-> SubSeq(body.data, body.pos + 1, Len(body.data)),
     err   |-> body.end = "ERR",
     body  |-> [body EXCEPT !.pos = Len(body.data)]]

\* ------------------------------------------------------------ util, masking

WS == {"SP", "LF", "CR"}

JSONKeys == {"k", "p"}

\* the JSON string "***" and the form value ***
JSONMarker == "\"***\""

FormMarker == "***"

IsDigits(s) == s # <<>> /\ \A i \in 1..Len(s) : s[i] \in Digits

\* length of the scalar (a number or the marker string) that s starts with
ScalarLen(s) ==
    IF s = <<>> THEN 0
    ELSE IF s[1] = JSONMarker THEN 1
    ELSE IF s[1] \notin Digits THEN 0
    ELSE CHOOSE n \in 1..Len(s) :
             /\ \A i \in 1..n : s[i] \in Digits
             /\ (n = Len(s) \/ s[n + 1] \notin Digits)

\* key : scalar (, key : scalar)*
RECURSIVE ValidMembers(_)
ValidMembers(m) ==
    /\ Len(m) >= 3
    /\ m[1] \in JSONKeys
    /\ m[2] = ":"
    /\ LET rest == SubSeq(m, 3, Len(m))
           n == ScalarLen(rest)
       IN  /\ n > 0
           /\ \/ Len(rest) = n
              \/ /\ Len(rest) > n + 1
                 /\ rest[n + 1] = ","
                 /\ ValidMembers(SubSeq(rest, n + 2, Len(rest)))

IsObject(c) ==
    /\ Len(c) >= 2
    /\ c[1] = "{"
    /\ c[Len(c)] = "}"
    /\ (Len(c) = 2 \/ ValidMembers(SubSeq(c, 2, Len(c) - 1)))

\* a JSON text without insignificant whitespace: a number, a string or a
\* flat object
ValidCompactJSON(c) == IsDigits(c) \/ c = <<JSONMarker>> \/ IsObject(c)

StripWS(b) == SelectSeq(b, LAMBDA c : c \notin WS)

\* whitespace inside a number
SplitsNumber(b) ==
    \E i, j \in 1..Len(b) :
        /\ i + 1 < j
        /\ b[i] \in Digits
        /\ b[j] \in Digits
        /\ \A k \in (i + 1)..(j - 1) : b[k] \in WS

\* util.MinifyJSON: json.Compact, the raw bytes when they are not JSON
MinifyJSON(b) ==
    IF ~SplitsNumber(b) /\ ValidCompactJSON(StripWS(b)) THEN StripWS(b) ELSE b

\* the set of field names a masking directive lists
FieldNames(fieldSpec) ==
    {Split(fieldSpec, ",")[i] : i \in 1..Len(Split(fieldSpec, ","))}

\* the members of a flat object with the listed fields' values replaced
RECURSIVE MaskMembers(_, _)
MaskMembers(m, fields) ==
    IF m = <<>> THEN <<>>
    ELSE LET rest == SubSeq(m, 3, Len(m))
             n    == ScalarLen(rest)
             val  == IF <<m[1]>> \in fields THEN <<JSONMarker>>
                     ELSE SubSeq(rest, 1, n)
             more == SubSeq(rest, n + 1, Len(rest))
         IN  <<m[1], ":">> \o val
                 \o (IF more = <<>> THEN <<>>
                     ELSE <<",">> \o MaskMembers(Tail(more), fields))

\* key=value pairs of a form body, the listed keys' values replaced
RECURSIVE MaskPairs(_, _)
MaskPairs(pairs, fields) ==
    IF pairs = <<>> THEN <<>>
    ELSE LET kv == Split(Head(pairs), "=")
             one == IF Len(kv) >= 2 /\ kv[1] \in fields
                    THEN kv[1] \o <<"=", FormMarker>> ELSE Head(pairs)
         IN  one \o (IF Tail(pairs) = <<>> THEN <<>>
                     ELSE <<"&">> \o MaskPairs(Tail(pairs), fields))

\* MaskFields(contentType, body, fieldSpec): JSON-aware for JSON bodies,
\* form-aware for form bodies, any other body or an unparsable one unchanged
MaskFields(contentType, body, fieldSpec) ==
    IF Contains(contentType, <<"application/json">>)
    THEN IF ~SplitsNumber(body) /\ IsObject(StripWS(body))
         THEN LET c == StripWS(body)
              IN  <<"{">> \o MaskMembers(SubSeq(c, 2, Len(c) - 1),
                                         FieldNames(fieldSpec)) \o <<"}">>
         ELSE body
    ELSE IF Contains(contentType, <<"application/x-www-form-urlencoded">>)
    THEN IF body = <<>> THEN body
         ELSE MaskPairs(Split(body, "&"), FieldNames(fieldSpec))
    ELSE body

\* iam.RetrieveJWTClaims(req): the claims an auth filter attached, or nil
RetrieveJWTClaims(request) == request.jwtClaims

\* ResponseWriterInterceptor.Write: the chunk goes to the wrapped writer and
\* is appended to the side buffer
InterceptorWrite(w, chunk) == [w EXCEPT !.data = @ \o chunk]

\* ------------------------------------------------------------ body capture

DataTooLarge ==
    <<"d", "a", "t", "a", "SP", "t", "o", "o", "SP", "l", "a", "r", "g", "e">>

Dash == <<"-">>

\* lines 269-276
isSupportedContentType(contentType) ==
    \E i \in 1..Len(FullAccessLogSupportedContentTypes) :
        Contains(contentType, FullAccessLogSupportedContentTypes[i])

\* the early return of both capture functions, lines 221 and 251
notCapturedNoEmptyCheck(contentType) ==
    ~isSupportedContentType(contentType)

notCaptured(contentType) ==
    contentType = <<>> \/ ~isSupportedContentType(contentType)

\* the size cutoff of both capture functions, lines 233 and 255
exceedsMaxOffByOne(n) == n >= FullAccessLogMaxBodySize

exceedsMax(n) == n > FullAccessLogMaxBodySize

\* lines 241-244 and 263-266: newline and carriage return become two
\* characters each
escapeNewlines(b) ==
    ReplaceAll(ReplaceAll(b, "LF", <<"\\", "n">>), "CR", <<"\\", "r">>)

\* getRequestBody(req, contentType): the string returned, the request's body
\* stream afterwards and the errors logged
getRequestBody(request, contentType) ==
    IF notCaptured(contentType)
    THEN [ret |-> <<>>, Body |-> request.Body, errors |-> <<>>]
    ELSE LET rd == ReadAll(request.Body)
             errors == IF rd.err THEN <<"failed to read request body">>
                       ELSE <<>>
         IN  IF Len(rd.bytes) # 0
             THEN [ret |-> IF exceedsMax(Len(rd.bytes)) THEN DataTooLarge
                           ELSE IF Contains(contentType, <<"application/json">>)
                                THEN MinifyJSON(rd.bytes)
                           ELSE escapeNewlines(rd.bytes),
                   Body |-> NopCloserBuffer(rd.bytes),
                   errors |-> errors]
             ELSE [ret |-> <<>>, Body |-> rd.body, errors |-> errors]

\* getResponseBody(respWriter, contentType)
getResponseBody(w, contentType) ==
    IF notCaptured(contentType) THEN <<>>
    ELSE IF exceedsMax(Len(w.data)) THEN DataTooLarge
    ELSE IF Contains(contentType, <<"application/json">>)
         THEN MinifyJSON(w.data)
    ELSE escapeNewlines(w.data)

\* ---------------------------------------------------------------- AccessLog

\* lines 120-121 and 165-166: the master switch and the request sub-switch
requestCaptureIgnoringMaster == FullAccessLogRequestBodyEnabled

requestCaptureOn == FullAccessLogEnabled /\ FullAccessLogRequestBodyEnabled

\* lines 165 and 175: the master switch and the response sub-switch
responseCaptureOn == FullAccessLogEnabled /\ FullAccessLogResponseBodyEnabled

\* lines 133-154, for one of namespace / user id / client id: the request
\* attribute, and the JWT claim when the attribute is nil or empty
identityNoFallback(attribute, jwtClaims, claim) ==
    IF attribute.exists THEN attribute.value ELSE ""

identity(attribute, jwtClaims, claim) ==
    LET token == IF attribute.exists THEN attribute.value ELSE ""
    IN  IF jwtClaims.exists /\ token = "" THEN claim ELSE token

\* fullAccessLogLogger.Infof with fullAccessLogFormatter: the message and a
\* newline, handed to os.Stdout in one Write.  The level a constructed
\* logger copies from logrus.GetLevel() is taken to admit Info; stdout
\* records the lines handed to the sink.
emitTwice(out, line) == Append(Append(out, line), line)

emit(out, line) == Append(out, line)

\* the value of fullAccessLogLogger that goroutine r reads: its own store
\* when that has not reached memory yet, memory otherwise
loadLogger(r) ==
    IF loggers[r].made /\ ~loggers[r].ptr THEN Present(r)
    ELSE fullAccessLogLogger

\* whether goroutine r sees the fields of logger l as they were constructed
\* (Out, Level, Formatter) rather than their zero values
seesFields(r, l) == l = r \/ loggers[l].fields

\* line 104: the nil check
LoggerCheck(r) ==
    /\ booted
    /\ pc[r] = "start"
    /\ pc' = [pc EXCEPT ![r] = IF loadLogger(r).exists THEN "enter" ELSE "create"]
    /\ UNCHANGED <<env, booted, config, errorLog, logging, req, origBody,
                   requestBody, responseBody, respWriter, sent, handlerSaw, chain>>

\* lines 105-109: the logger is allocated, its fields are stored, and the
\* pointer is stored to the package variable with no synchronisation
LoggerCreate(r) ==
    /\ pc[r] = "create"
    /\ loggers' = [loggers EXCEPT ![r] = [made |-> TRUE, fields |-> FALSE, ptr |-> FALSE]]
    /\ pc' = [pc EXCEPT ![r] = "enter"]
    /\ UNCHANGED <<env, booted, config, errorLog, fullAccessLogLogger, stdout,
                   req, origBody, requestBody, responseBody, respWriter, sent,
                   handlerSaw, chain>>

\* the stores to logger l's fields become visible to the other goroutines
PropagateFields(l) ==
    /\ loggers[l].made
    /\ ~loggers[l].fields
    /\ loggers' = [loggers EXCEPT ![l].fields = TRUE]
    /\ UNCHANGED <<env, booted, config, errorLog, fullAccessLogLogger, stdout, calls>>

\* the store of logger l's pointer reaches memory
PropagatePointer(l) ==
    /\ loggers[l].made
    /\ ~loggers[l].ptr
    /\ loggers' = [loggers EXCEPT ![l].ptr = TRUE]
    /\ fullAccessLogLogger' = Present(l)
    /\ UNCHANGED <<env, booted, config, errorLog, stdout, calls>>

\* lines 112-128: the request body is captured and the response writer is
\* decorated; then chain.ProcessFilter is called
AccessLogEnter(r) ==
    /\ pc[r] = "enter"
    /\ LET captured ==
               IF requestCaptureOn
               THEN getRequestBody(req[r], req[r].contentType)
               ELSE [ret |-> Dash, Body |-> req[r].Body, errors |-> <<>>]
       IN  /\ requestBody' = [requestBody EXCEPT ![r] = captured.ret]
           /\ req' = [req EXCEPT ![r].Body = captured.Body]
           /\ errorLog' = errorLog \o captured.errors
    /\ respWriter' = [respWriter EXCEPT ![r] = [data |-> <<>>, contentType |-> <<>>]]
    /\ pc' = [pc EXCEPT ![r] = "handler"]
    /\ UNCHANGED <<env, booted, config, logging, origBody, responseBody, sent,
                   handlerSaw, chain>>

\* inside chain.ProcessFilter: the handler writes one chunk of the response
HandlerWrite(r) ==
    /\ pc[r] = "handler"
    /\ chain[r].writes # <<>>
    /\ respWriter' = [respWriter EXCEPT ![r] = InterceptorWrite(@, Head(chain[r].writes))]
    /\ sent' = [sent EXCEPT ![r] = @ \o Head(chain[r].writes)]
    /\ chain' = [chain EXCEPT ![r].writes = Tail(@)]
    /\ UNCHANGED <<env, booted, config, errorLog, logging, pc, req, origBody,
                   requestBody, responseBody, handlerSaw>>

\* chain.ProcessFilter returns: by now the inner filters have set their
\* request attributes and the response Content-Type, and the handler has
\* read the request body
HandlerReturn(r) ==
    /\ pc[r] = "handler"
    /\ chain[r].writes = <<>>
    /\ LET rd == ReadAll(req[r].Body)
       IN  /\ handlerSaw' = [handlerSaw EXCEPT ![r] = [bytes |-> rd.bytes, err |-> rd.err]]
           /\ req' = [req EXCEPT ![r].Body = rd.body,
                                 ![r].attrs = chain[r].attrs,
                                 ![r].jwtClaims = chain[r].jwtClaims]
    /\ respWriter' = [respWriter EXCEPT ![r].contentType = chain[r].contentType]
    /\ pc' = [pc EXCEPT ![r] = "returned"]
    /\ UNCHANGED <<env, booted, config, errorLog, logging, origBody, requestBody,
                   responseBody, sent, chain>>

\* the log line of call r, lines 132-216
accessLogLine(r) ==
    LET attrs == req[r].attrs
        jwtClaims == RetrieveJWTClaims(req[r])
        responseContentType == respWriter[r].contentType
        maskedRequest ==
            IF /\ requestCaptureOn
               /\ attrs.MaskedRequestFields.exists
               /\ requestBody[r] # <<>>
            THEN MaskFields(req[r].contentType, requestBody[r],
                            attrs.MaskedRequestFields.value)
            ELSE requestBody[r]
        captured == getResponseBody(respWriter[r], responseContentType)
        maskedResponse ==
            IF ~responseCaptureOn THEN Dash
            ELSE IF attrs.MaskedResponseFields.exists /\ captured # <<>>
            THEN MaskFields(responseContentType, captured,
                            attrs.MaskedResponseFields.value)
            ELSE captured
    IN  [call |-> r,
         namespace |-> identity(attrs.Namespace, jwtClaims, jwtClaims.Namespace),
         user_id |-> identity(attrs.UserID, jwtClaims, jwtClaims.Subject),
         client_id |-> identity(attrs.ClientID, jwtClaims, jwtClaims.ClientID),
         request_content_type |-> req[r].contentType,
         request_body |-> maskedRequest,
         response_content_type |-> responseContentType,
         response_body |-> maskedResponse]

\* lines 132-217: the record is assembled and handed to the logger; a logger
\* whose fields this goroutine does not see yet has the zero Level and logs
\* nothing
AccessLogExit(r) ==
    /\ pc[r] = "returned"
    /\ requestBody' = [requestBody EXCEPT ![r] = accessLogLine(r).request_body]
    /\ responseBody' = [responseBody EXCEPT ![r] = accessLogLine(r).response_body]
    /\ stdout' = IF seesFields(r, loadLogger(r).value)
                 THEN emit(stdout, accessLogLine(r)) ELSE stdout
    /\ pc' = [pc EXCEPT ![r] = "done"]
    /\ UNCHANGED <<env, booted, config, errorLog, fullAccessLogLogger, loggers,
                   req, origBody, respWriter, sent, handlerSaw, chain>>

\* ------------------------------------------- the capture functions applied

\* getRequestBody applied to request r
CallGetRequestBody(r) ==
    /\ booted
    /\ pc[r] = "call"
    /\ LET captured == getRequestBody(req[r], req[r].contentType)
       IN  /\ requestBody' = [requestBody EXCEPT ![r] = captured.ret]
           /\ req' = [req EXCEPT ![r].Body = captured.Body]
           /\ errorLog' = errorLog \o captured.errors
    /\ pc' = [pc EXCEPT ![r] = "captured"]
    /\ UNCHANGED <<env, booted, config, logging, origBody, responseBody,
                   respWriter, sent, handlerSaw, chain>>

\* the downstream handler reads req.Request.Body to its end
HandlerReadBody(r) ==
    /\ pc[r] = "captured"
    /\ LET rd == ReadAll(req[r].Body)
       IN  /\ handlerSaw' = [handlerSaw EXCEPT ![r] = [bytes |-> rd.bytes, err |-> rd.err]]
           /\ req' = [req EXCEPT ![r].Body = rd.body]
    /\ pc' = [pc EXCEPT ![r] = "handled"]
    /\ UNCHANGED <<env, booted, config, errorLog, logging, origBody, requestBody,
                   responseBody, respWriter, sent, chain>>

\* getResponseBody applied to the interceptor of request r
CallGetResponseBody(r) ==
    /\ pc[r] = "handled"
    /\ responseBody' = [responseBody EXCEPT ![r] =
                            getResponseBody(respWriter[r], respWriter[r].contentType)]
    /\ pc' = [pc EXCEPT ![r] = "applied"]
    /\ UNCHANGED <<env, booted, config, errorLog, logging, req, origBody,
                   requestBody, respWriter, sent, handlerSaw, chain>>

\* ------------------------------------------------------------------ inputs

Bytes == {"1", "SP", "LF", "CR"}

\* every byte sequence of at most n bytes
BodiesUpTo(n) == UNION {[1..k -> Bytes] : k \in 0..n}

JSONType == <<"application/json">>

JSONCharsetType == <<"application/json", "; charset=utf-8">>

FormType == <<"application/x-www-form-urlencoded">>

TextType == <<"text/plain">>

PNGType == <<"image/png">>

ContentTypes == {<<>>, JSONType, JSONCharsetType, TextType, PNGType}

BoolEnvValues == {Absent, Present("true"), Present("false"), Present("yes")}

MaxEnvValues == {Absent} \cup {Present(Itoa(n)) : n \in (0 - 1)..MaxLen}

TypesEnvValues ==
    {Absent, Present(<<>>), Present(<<"text/plain">>),
     Present(<<"image/png", ",", "application/json">>)}

Env(enabled, types, max, request, response) ==
    [ENABLED |-> enabled, SUPPORTED_CONTENT_TYPES |-> types,
     MAX_BODY_SIZE |-> max, REQUEST_BODY_ENABLED |-> request,
     RESPONSE_BODY_ENABLED |-> response]

NoClaims == [exists |-> FALSE, Namespace |-> "", Subject |-> "", ClientID |-> ""]

Claims(ns, sub, cid) ==
    [exists |-> TRUE, Namespace |-> ns, Subject |-> sub, ClientID |-> cid]

Attrs(ns, uid, cid, maskRequest, maskResponse) ==
    [Namespace |-> ns, UserID |-> uid, ClientID |-> cid,
     MaskedRequestFields |-> maskRequest, MaskedResponseFields |-> maskResponse]

NoAttrs == Attrs(Absent, Absent, Absent, Absent, Absent)

Request(contentType, body) ==
    [contentType |-> contentType, Body |-> body, attrs |-> NoAttrs,
     jwtClaims |-> NoClaims]

Chain(attrs, jwtClaims, contentType, writes) ==
    [attrs |-> attrs, jwtClaims |-> jwtClaims, contentType |-> contentType,
     writes |-> writes]

NoChain == Chain(NoAttrs, NoClaims, <<>>, <<>>)

NoWriter == [data |-> <<>>, contentType |-> <<>>]

NoLogger == [made |-> FALSE, fields |-> FALSE, ptr |-> FALSE]

\* a call that is not made
Unused == [pc |-> "unused", req |-> Request(<<>>, NopCloserBuffer(<<>>)),
           chain |-> NoChain, respWriter |-> NoWriter]

\* the state of a freshly started process with environment e, in which the
\* calls of setup are about to be made
Start(e, setup) ==
    /\ env = e
    /\ booted = FALSE
    /\ FullAccessLogEnabled = FALSE
    /\ FullAccessLogSupportedContentTypes = <<>>
    /\ FullAccessLogMaxBodySize = 0
    /\ FullAccessLogRequestBodyEnabled = FALSE
    /\ FullAccessLogResponseBodyEnabled = FALSE
    /\ errorLog = <<>>
    /\ fullAccessLogLogger = Absent
    /\ loggers = [r \in Requests |-> NoLogger]
    /\ stdout = <<>>
    /\ pc = [r \in Requests |-> setup[r].pc]
    /\ req = [r \in Requests |-> setup[r].req]
    /\ origBody = [r \in Requests |-> setup[r].req.Body]
    /\ requestBody = [r \in Requests |-> <<>>]
    /\ responseBody = [r \in Requests |-> <<>>]
    /\ respWriter = [r \in Requests |-> setup[r].respWriter]
    /\ sent = [r \in Requests |-> <<>>]
    /\ handlerSaw = [r \in Requests |-> [bytes |-> <<>>, err |-> FALSE]]
    /\ chain = [r \in Requests |-> setup[r].chain]

\* only the first call is made
Single(call) == [r \in Requests |-> IF r = 1 THEN call ELSE Unused]

\* ------------------------------------------------- SpecInit: init() alone

InitBoot ==
    \E enabled \in BoolEnvValues, types \in TypesEnvValues,
       max \in MaxEnvValues \cup {Present(<<"1", "0", "k">>)},
       request \in BoolEnvValues, response \in BoolEnvValues :
        Start(Env(enabled, types, max, request, response), Single(Unused))

SpecInit == InitBoot /\ [][init]_vars

\* -------------------------- SpecCapture: the capture functions applied

Streams ==
    {Stream(b, end) : b \in BodiesUpTo(MaxLen), end \in {"EOF", "ERR"}}

\* the request body is a stream; the interceptor's buffer holds the same bytes
InitCapture ==
    \E types \in TypesEnvValues, max \in MaxEnvValues,
       contentType \in ContentTypes, body \in Streams :
        Start(Env(Absent, types, max, Absent, Absent),
              Single([pc |-> "call",
                      req |-> Request(contentType, body),
                      chain |-> NoChain,
                      respWriter |-> [data |-> body.data,
                                      contentType |-> contentType]]))

NextCapture ==
    \/ init
    \/ \E r \in Requests : CallGetRequestBody(r)
    \/ \E r \in Requests : HandlerReadBody(r)
    \/ \E r \in Requests : CallGetResponseBody(r)

SpecCapture == InitCapture /\ [][NextCapture]_vars

\* ------------------------------------ Spec: one AccessLog call, end to end

JSONObject == <<"{", "SP", "k", ":", "1", ",", "p", ":", "1", "}">>

FormBody == <<"k", "=", "1", "&", "p", "=", "1">>

PipelineBodies == {<<>>, JSONObject, FormBody}

Chunks == {<<"{", "k", ":", "1", "}">>, <<"LF">>}

\* what a handler writes: at most MaxWrites chunks
WriteScripts == UNION {[1..k -> Chunks] : k \in 0..MaxWrites}

AttrValues == {Absent, Present(""), Present("attr")}

ClaimValues ==
    {NoClaims, Claims("jwt-ns", "jwt-sub", "jwt-cid"), Claims("", "jwt-sub", "")}

MaskValues == {Absent, Present(<<"k">>)}

\* a call whose inner filters set every combination of identity attributes
\* and token claims
InitIdentity ==
    \E enabled \in {Absent, Present("true")},
       ns \in AttrValues, uid \in AttrValues, cid \in AttrValues,
       jwtClaims \in ClaimValues :
        Start(Env(enabled, Absent, Absent, Absent, Absent),
              Single([pc |-> "start",
                      req |-> Request(JSONType, NopCloserBuffer(JSONObject)),
                      chain |-> Chain(Attrs(ns, uid, cid, Absent, Absent),
                                      jwtClaims, JSONType, <<>>),
                      respWriter |-> NoWriter]))

\* a call under every setting of the switches, with every payload, content
\* type and masking directive
InitPayload ==
    \E enabled \in {Absent, Present("true"), Present("yes")},
       request \in {Absent, Present("false")},
       response \in {Absent, Present("false")},
       contentType \in {<<>>, JSONType, FormType},
       body \in PipelineBodies,
       maskRequest \in MaskValues, maskResponse \in MaskValues,
       responseType \in {<<>>, JSONType},
       writes \in WriteScripts :
        Start(Env(enabled, Absent, Absent, request, response),
              Single([pc |-> "start",
                      req |-> Request(contentType, NopCloserBuffer(body)),
                      chain |-> Chain(Attrs(Absent, Absent, Absent,
                                            maskRequest, maskResponse),
                                      NoClaims, responseType, writes),
                      respWriter |-> NoWriter]))

Init == InitIdentity \/ InitPayload

Next ==
    \/ init
    \/ \E r \in Requests : LoggerCheck(r)
    \/ \E r \in Requests : LoggerCreate(r)
    \/ \E l \in Requests : PropagateFields(l)
    \/ \E l \in Requests : PropagatePointer(l)
    \/ \E r \in Requests : AccessLogEnter(r)
    \/ \E r \in Requests : HandlerWrite(r)
    \/ \E r \in Requests : HandlerReturn(r)
    \/ \E r \in Requests : AccessLogExit(r)

Spec == Init /\ [][Next]_vars

\* -------------------------------- SpecConc: NReq AccessLog calls at once

ConcCalls ==
    {[pc |-> "start",
      req |-> Request(TextType, NopCloserBuffer(body)),
      chain |-> Chain(NoAttrs, NoClaims, TextType, <<chunk>>),
      respWriter |-> NoWriter] :
        body \in {<<"1">>, <<"LF">>}, chunk \in {<<"1">>, <<"CR">>}}

InitConc ==
    \E setup \in [Requests -> ConcCalls] :
        Start(Env(Present("true"), Absent, Absent, Absent, Absent), setup)

SpecConc == InitConc /\ [][Next]_vars

\* ------------------------------------------------------------------ claims

\* the claims' own reading of "eligible": a non-empty content type that
\* contains one of the configured entries
Eligible(contentType) ==
    /\ contentType # <<>>
    /\ \E i \in 1..Len(FullAccessLogSupportedContentTypes) :
           Contains(contentType, FullAccessLogSupportedContentTypes[i])

\* getRequestBody has been applied to request r
RequestCaptured(r) == pc[r] \in {"captured", "handled", "applied"}

\* getResponseBody has been applied to the interceptor of request r
ResponseCaptured(r) == pc[r] = "applied"

\* the handler has read the body of request r
HandlerHasRead(r) == pc[r] \in {"handled", "applied"}

\* the lines on os.Stdout that belong to call r
LinesOf(r) == SelectSeq(stdout, LAMBDA line : line.call = r)

\* C1: after getRequestBody, the handler reads from req.Request.Body exactly
\* the bytes, and the same read outcome, that the arriving stream would have
\* given it
C1_CaptureNonDestructive ==
    \A r \in Requests :
        HandlerHasRead(r) =>
            handlerSaw[r] = [bytes |-> ReadAll(origBody[r]).bytes,
                             err |-> ReadAll(origBody[r]).err]

\* C2 as stated: every body longer than FullAccessLogMaxBodySize is captured
\* as "data too large", and no body of at most that length is
C2_TooLargeForEveryBody ==
    \A r \in Requests :
        /\ RequestCaptured(r) =>
               IF Len(origBody[r].data) > FullAccessLogMaxBodySize
               THEN requestBody[r] = DataTooLarge
               ELSE requestBody[r] # DataTooLarge
        /\ ResponseCaptured(r) =>
               IF Len(respWriter[r].data) > FullAccessLogMaxBodySize
               THEN responseBody[r] = DataTooLarge
               ELSE responseBody[r] # DataTooLarge

\* C2 amended: under an eligible content type, a response buffer longer than
\* the maximum, and a request body of at least one byte longer than the
\* maximum, are captured as "data too large"; a body of at most the maximum
\* length is never captured as "data too large", under any content type
C2_TooLargeWhenEligible ==
    \A r \in Requests :
        /\ RequestCaptured(r) =>
               /\ (/\ Eligible(req[r].contentType)
                   /\ Len(origBody[r].data) > FullAccessLogMaxBodySize
                   /\ Len(origBody[r].data) # 0)
                      => requestBody[r] = DataTooLarge
               /\ Len(origBody[r].data) <= FullAccessLogMaxBodySize
                      => requestBody[r] # DataTooLarge
        /\ ResponseCaptured(r) =>
               /\ (/\ Eligible(respWriter[r].contentType)
                   /\ Len(respWriter[r].data) > FullAccessLogMaxBodySize)
                      => responseBody[r] = DataTooLarge
               /\ Len(respWriter[r].data) <= FullAccessLogMaxBodySize
                      => responseBody[r] # DataTooLarge

\* C2 witness: both functions returned the sentinel for a body whose content
\* would otherwise have been minified
C2_Witness ==
    /\ ResponseCaptured(1)
    /\ req[1].contentType = JSONType
    /\ origBody[1].data = <<"SP", "1">>
    /\ FullAccessLogMaxBodySize = 1
    /\ requestBody[1] = DataTooLarge
    /\ responseBody[1] = DataTooLarge

\* C3: an empty content type, or one containing none of the supported
\* entries, makes getRequestBody and getResponseBody return ""
C3_IneligibleCapturesEmpty ==
    \A r \in Requests :
        /\ (RequestCaptured(r) /\ ~Eligible(req[r].contentType))
               => requestBody[r] = <<>>
        /\ (ResponseCaptured(r) /\ ~Eligible(respWriter[r].contentType))
               => responseBody[r] = <<>>

\* C3 witness: the supported set holds the empty string, which every content
\* type contains, and the empty content type was still not captured
C3_Witness ==
    /\ ResponseCaptured(1)
    /\ req[1].contentType = <<>>
    /\ FullAccessLogSupportedContentTypes = << <<>> >>
    /\ Len(origBody[1].data) > FullAccessLogMaxBodySize
    /\ origBody[1].data # <<>>
    /\ requestBody[1] = <<>>
    /\ responseBody[1] = <<>>

\* C5: when the read of the request body ends in an error, the error is
\* logged and getRequestBody returns ""
C5_ReadErrorCapturesEmpty ==
    \A r \in Requests :
        (/\ RequestCaptured(r)
         /\ Eligible(req[r].contentType)
         /\ origBody[r].end = "ERR")
            => /\ errorLog # <<>>
               /\ requestBody[r] = <<>>

\* C10: over the same bytes and content type, getResponseBody returns what
\* getRequestBody returns
C10_ResponseSameAsRequest ==
    \A r \in Requests :
        (/\ ResponseCaptured(r)
         /\ origBody[r].end = "EOF"
         /\ respWriter[r].data = origBody[r].data
         /\ respWriter[r].contentType = req[r].contentType)
            => responseBody[r] = requestBody[r]

\* C8: a setting whose environment variable is present but unparsable takes
\* its documented default, and the error is logged
C8_ParseErrorKeepsDefault ==
    booted =>
        /\ (env.ENABLED.exists /\ ParseBool(env.ENABLED.value).err)
               => (FullAccessLogEnabled = FALSE /\ errorLog # <<>>)
        /\ (env.MAX_BODY_SIZE.exists /\ ParseInt(env.MAX_BODY_SIZE.value).err)
               => (FullAccessLogMaxBodySize = DefaultMaxBodySize /\ errorLog # <<>>)
        /\ (env.REQUEST_BODY_ENABLED.exists /\ ParseBool(env.REQUEST_BODY_ENABLED.value).err)
               => (FullAccessLogRequestBodyEnabled = TRUE /\ errorLog # <<>>)
        /\ (env.RESPONSE_BODY_ENABLED.exists /\ ParseBool(env.RESPONSE_BODY_ENABLED.value).err)
               => (FullAccessLogResponseBodyEnabled = TRUE /\ errorLog # <<>>)

\* C4: with FullAccessLogEnabled false, the line's request_body and
\* response_body are both "-"
C4_DisabledLogsDash ==
    \A r \in Requests :
        (pc[r] = "done" /\ ~FullAccessLogEnabled) =>
            /\ Len(LinesOf(r)) = 1
            /\ LinesOf(r)[1].request_body = Dash
            /\ LinesOf(r)[1].response_body = Dash

\* C4 witness: the master switch is off while both sub-switches are on, the
\* payloads are JSON, and both masking directives are set
C4_Witness ==
    /\ pc[1] = "done"
    /\ ~FullAccessLogEnabled
    /\ FullAccessLogRequestBodyEnabled
    /\ FullAccessLogResponseBodyEnabled
    /\ req[1].contentType = JSONType
    /\ origBody[1].data = JSONObject
    /\ respWriter[1].contentType = JSONType
    /\ sent[1] # <<>>
    /\ req[1].attrs.MaskedRequestFields.exists
    /\ req[1].attrs.MaskedResponseFields.exists
    /\ LinesOf(1)[1].request_body = Dash

\* C6: a call has exactly one line on os.Stdout once it is done, and none
\* before that, so none while chain.ProcessFilter has not returned
C6_OneLineAfterHandlerReturns ==
    \A r \in Requests :
        Len(LinesOf(r)) = IF pc[r] = "done" THEN 1 ELSE 0

\* C6 witness: the handler wrote its whole response and returned, and the one
\* line is out
C6_Witness ==
    /\ pc[1] = "done"
    /\ Len(sent[1]) > 1
    /\ Len(stdout) = 1

\* the value the claim gives one identity field
ClaimedIdentity(attribute, jwtClaims, claim) ==
    IF attribute.exists /\ attribute.value # "" THEN attribute.value
    ELSE IF jwtClaims.exists THEN claim
    ELSE ""

\* C9: namespace, user id and client id are each the non-empty request
\* attribute, else the JWT claim when claims are present, else empty; and the
\* line is emitted
C9_IdentityPrecedence ==
    \A r \in Requests :
        pc[r] = "done" =>
            /\ Len(LinesOf(r)) = 1
            /\ LinesOf(r)[1].namespace =
                   ClaimedIdentity(req[r].attrs.Namespace, req[r].jwtClaims,
                                   req[r].jwtClaims.Namespace)
            /\ LinesOf(r)[1].user_id =
                   ClaimedIdentity(req[r].attrs.UserID, req[r].jwtClaims,
                                   req[r].jwtClaims.Subject)
            /\ LinesOf(r)[1].client_id =
                   ClaimedIdentity(req[r].attrs.ClientID, req[r].jwtClaims,
                                   req[r].jwtClaims.ClientID)

\* C9 witness: one field comes from its attribute, one from the token
\* because its attribute is empty, one from the token because its attribute
\* is absent
C9_Witness ==
    /\ pc[1] = "done"
    /\ req[1].attrs.Namespace = Present("attr")
    /\ req[1].attrs.UserID = Present("")
    /\ req[1].attrs.ClientID = Absent
    /\ req[1].jwtClaims.exists
    /\ LinesOf(1)[1].namespace = "attr"
    /\ LinesOf(1)[1].user_id = "jwt-sub"
    /\ LinesOf(1)[1].client_id = "jwt-cid"

\* C7: every finished call has exactly one line, and the line carries that
\* call's own request body and response body
C7_OneOwnLinePerCall ==
    \A r \in Requests :
        pc[r] = "done" =>
            /\ Len(LinesOf(r)) = 1
            /\ LinesOf(r)[1].request_body = escapeNewlines(origBody[r].data)
            /\ LinesOf(r)[1].response_body = escapeNewlines(sent[r])

====
